---- MODULE Spec2Model ----
(***************************************************************************)
(* Model of the log puller's batch handler                                 *)
(* (lib/rust/log_puller/src/main.rs): one SQS batch is parsed, every       *)
(* parsed request is resolved against the catalog, the resolved ones are   *)
(* run concurrently as pull_logs -> upload_data tasks, and the ids of the  *)
(* failed ones are returned as the partial-batch response.                 *)
(***************************************************************************)
EXTENDS Integers, Sequences, FiniteSets, TLC

\* Longest batch (event.payload.records) delivered by the transport.
MaxBatchLen == 2
\* Number of handler invocations of one running instance that are explored.
MaxInvocations == 2

(***************************************************************************)
(* Option and Result values of the Rust code.                              *)
(***************************************************************************)
None == [some |-> FALSE]
Some(v) == [some |-> TRUE, val |-> v]
Ok(v) == [ok |-> TRUE, val |-> v]
Err(e) == [ok |-> FALSE, err |-> e]

(***************************************************************************)
(* The catalog: CONTEXTS maps the name of every declared, managed log      *)
(* source to its pull context.  Two sources are declared; "x" is a name    *)
(* that requests may carry and the catalog does not hold.                  *)
(***************************************************************************)
CONTEXTS == [n \in {"a", "b"} |-> [log_source_type |-> n]]
SourceNames == {"a", "b", "x"}

(***************************************************************************)
(* Message bodies.  A body is text; what matters of it is what             *)
(* serde_json::from_str::<PullerRequest> makes of it: text that is no JSON *)
(* object, or a JSON object holding some of the two required string        *)
(* fields.                                                                 *)
(***************************************************************************)
NotJson == [json |-> FALSE]
JsonObject(name, time) == [json |-> TRUE, log_source_name |-> name, time |-> time]
Bodies ==
    {NotJson, JsonObject(None, Some("t")), JsonObject(Some("a"), None)}
        \cup {JsonObject(Some(n), Some("t")) : n \in SourceNames}

\* serde_json::from_str::<PullerRequest>(&body): both fields are required.
ParseRequest(body) ==
    IF body.json /\ body.log_source_name.some /\ body.time.some
    THEN Ok([log_source_name |-> body.log_source_name.val, time |-> body.time.val])
    ELSE Err("serde_json")

(***************************************************************************)
(* An SQS message: message_id and body are both Option<String>.  The       *)
(* transport gives the messages of a batch distinct ids: the id of the     *)
(* message at position i of the batch is i.                                *)
(***************************************************************************)
Messages(i) == [message_id : {None, Some(i)}, body : {None} \cup {Some(b) : b \in Bodies}]
Batches ==
    UNION {{b \in [1..n -> UNION {Messages(i) : i \in 1..n}] :
                \A i \in 1..n : b[i] \in Messages(i)} : n \in 0..MaxBatchLen}

\* The batches that follow the first one of an instance: redeliveries and
\* new requests, shorter than the longest batch, each message with its id
\* and a well-formed request for a declared or an undeclared source.
LaterMessages(i) ==
    [message_id : {Some(i)}, body : {Some(JsonObject(Some(n), Some("t"))) : n \in {"a", "x"}}]
LaterBatches ==
    {b \in Batches : Len(b) < MaxBatchLen /\ \A i \in 1..Len(b) : b[i] \in LaterMessages(i)}

VARIABLES
    bucketEnv,    \* is INGESTION_BUCKET_NAME set in the process environment
    invocations,  \* number of handler invocations started so far
    hpc,          \* where the handler is: idle, polling, awaiting, returned, panicked
    event,        \* event.payload.records of the current invocation
    failures,     \* the failures vector: message ids in push order
    msg_ids,      \* the message ids paired with the dispatched futures (line 172)
    tasks,        \* the dispatched futures (futs, line 172), in order
    response,     \* what the handler returned
    bucket,       \* the objects of the ingestion bucket
    putLog,       \* the keys put_object was sent with, over all invocations
    putCount,     \* number of put_object requests sent, over all invocations
    written       \* number of put_object requests that stored their object

vars == <<bucketEnv, invocations, hpc, event, failures, msg_ids, tasks, response, bucket, putLog, putCount, written>>

Pending == [state |-> "pending"]
Returned(v) == [state |-> "returned", val |-> v]

(***************************************************************************)
(* Lines 129-139: the records with a body, each with its unwrapped         *)
(* message id; then the ones whose body parses.  `item` is the position of *)
(* the message in the batch, kept for the properties only.                 *)
(***************************************************************************)
Indexed(records) == [i \in 1..Len(records) |-> [item |-> i, msg |-> records[i]]]

\* msg.message_id.unwrap() on a message that has a body and no id.
UnwrapPanics(records) ==
    \E i \in 1..Len(records) : records[i].body.some /\ ~records[i].message_id.some

WithBody(records) ==
    LET kept == SelectSeq(Indexed(records), LAMBDA r : r.msg.body.some)
    IN  [k \in 1..Len(kept) |->
            [item |-> kept[k].item, id |-> kept[k].msg.message_id.val,
             body |-> kept[k].msg.body.val]]

Parsed(records) ==
    LET kept == SelectSeq(WithBody(records), LAMBDA r : ParseRequest(r.body).ok)
    IN  [k \in 1..Len(kept) |->
            [item |-> kept[k].item, id |-> kept[k].id,
             record |-> ParseRequest(kept[k].body).val]]

(***************************************************************************)
(* Lines 143-159: the closure mapped over the records.  An unknown source  *)
(* is an error; a known one gives the future pull_logs -> upload_data,     *)
(* not yet polled.                                                         *)
(***************************************************************************)
NewTask(p) ==
    [item |-> p.item, log_source_name |-> p.record.log_source_name,
     pc |-> "created", data |-> <<>>, key |-> None, result |-> Pending,
     pulled |-> None, pulls |-> 0, puts |-> 0, stored |-> 0]

MapRecordWithoutLookup(p) == Ok(NewTask(p))
MapRecord(p) ==
    IF p.record.log_source_name \in DOMAIN CONTEXTS
    THEN Ok(NewTask(p))
    ELSE Err("Invalid log source.")

\* Lines 160-172: zip with the message ids, push the ids of the errors onto
\* failures, keep the (msg_id, future) pairs of the rest.
Zipped(parsed) == [k \in 1..Len(parsed) |-> [r |-> MapRecord(parsed[k]), msg_id |-> parsed[k].id]]

ResolutionFailures(parsed) ==
    LET bad == SelectSeq(Zipped(parsed), LAMBDA z : ~z.r.ok)
    IN  [k \in 1..Len(bad) |-> bad[k].msg_id]

DispatchedZipAfterFilter(parsed) ==
    LET good == SelectSeq(Zipped(parsed), LAMBDA z : z.r.ok)
    IN  [k \in 1..Len(good) |-> [r |-> good[k].r, msg_id |-> parsed[k].id]]
Dispatched(parsed) == SelectSeq(Zipped(parsed), LAMBDA z : z.r.ok)

\* A failures vector that outlives the invocation.
VecKept == failures

\* Line 127: let mut failures = vec![]; the vector is a local of the
\* invocation, new and empty at its start and dropped at its end.
VecNew == <<>>

(***************************************************************************)
(* handler, lines 122-172: everything up to the first await.               *)
(***************************************************************************)
Invoke(records) ==
    /\ hpc = "idle"
    /\ invocations < MaxInvocations
    /\ invocations' = invocations + 1
    /\ event' = records
    /\ response' = Pending
    /\ IF UnwrapPanics(records)
       THEN /\ hpc' = "panicked"
            /\ failures' = VecNew
            /\ msg_ids' = <<>>
            /\ tasks' = <<>>
       ELSE LET parsed == Parsed(records)
                good == Dispatched(parsed)
            IN  /\ hpc' = "polling"
                /\ failures' = VecNew \o ResolutionFailures(parsed)
                /\ msg_ids' = [k \in 1..Len(good) |-> good[k].msg_id]
                /\ tasks' = [k \in 1..Len(good) |-> good[k].r.val]
    /\ UNCHANGED <<bucketEnv, bucket, putLog, putCount, written>>

(***************************************************************************)
(* Lines 174-178: the futures are collected into a FuturesOrdered and      *)
(* awaited.  The first poll polls every future, which calls its connector. *)
(***************************************************************************)
Poll ==
    /\ hpc = "polling"
    /\ hpc' = "awaiting"
    /\ tasks' = [k \in 1..Len(tasks) |-> [tasks[k] EXCEPT !.pc = "pull_logs", !.pulls = @ + 1]]
    /\ UNCHANGED <<bucketEnv, invocations, event, failures, msg_ids, response, bucket, putLog, putCount, written>>

(***************************************************************************)
(* The connector (pullers::PullLogs::pull_logs) of a source fails, or      *)
(* returns no bytes, or returns bytes of that source.  Bytes are modelled  *)
(* as a sequence of chunks, each naming the source it was pulled from.     *)
(***************************************************************************)
PullLogsOutcomes(log_source_name) ==
    {Err("pull_logs"), Ok(<<>>), Ok(<<log_source_name>>)}

\* zstd::Encoder over the data: the frame of the data.
ZstdEncode(data) == [encoding |-> "zstd", of |-> data]

\* uuid::Uuid::new_v4(): a random identifier, equal to none that names an
\* object of the bucket, was sent with a put_object or is held by a future of
\* this invocation (the least such number stands for it).
UuidsInUse ==
    {o.key.name : o \in bucket} \cup {key.name : key \in putLog}
        \cup {tasks[k].key.val.name : k \in {j \in 1..Len(tasks) : tasks[j].key.some}}
NewV4 ==
    CHOOSE n \in 1..(Cardinality(UuidsInUse) + 1) :
        n \notin UuidsInUse /\ \A m \in 1..(n - 1) : m \in UuidsInUse

\* A key made of the source alone.
KeyWithoutUuid(log_source, id) == [prefix |-> log_source, name |-> 0, ext |-> "json.zst"]
\* A key that is not under the source.
KeyUnscoped(log_source, id) == [prefix |-> "logs", name |-> id, ext |-> "json.zst"]

\* Line 212: format!("{}/{}.json.zst", log_source, uuid).
Key(log_source, id) == [prefix |-> log_source, name |-> id, ext |-> "json.zst"]

\* Finish that starts the connector once more after an error.
FinishRetrying(t, result) ==
    IF ~result.ok /\ t.pulls < 2
    THEN [t EXCEPT !.pc = "pull_logs", !.pulls = @ + 1, !.data = <<>>, !.key = None]
    ELSE [t EXCEPT !.pc = "done", !.result = result]

\* A task completes: its result is set and it is polled no more.
Finish(t, result) == [t EXCEPT !.pc = "done", !.result = result]

(***************************************************************************)
(* pull_logs completes; on success upload_data runs up to its first await  *)
(* (lines 205-217): empty data returns Ok, a missing INGESTION_BUCKET_NAME *)
(* returns the error, otherwise the key is made and the S3 client awaited. *)
(***************************************************************************)
UploadDataWritingEmpty(t, data) ==
    IF ~bucketEnv
    THEN Finish([t EXCEPT !.data = data], Err("INGESTION_BUCKET_NAME"))
    ELSE [t EXCEPT !.data = data, !.pc = "s3_client",
                   !.key = Some(Key(t.log_source_name, NewV4))]
UploadDataSkippingData(t, data) ==
    IF data # <<>>
    THEN Finish([t EXCEPT !.data = data], Ok("unit"))
    ELSE IF ~bucketEnv
    THEN Finish([t EXCEPT !.data = data], Err("INGESTION_BUCKET_NAME"))
    ELSE [t EXCEPT !.data = data, !.pc = "s3_client",
                   !.key = Some(Key(t.log_source_name, NewV4))]
UploadData(t, data) ==
    IF data = <<>>
    THEN Finish([t EXCEPT !.data = data], Ok("unit"))
    ELSE IF ~bucketEnv
    THEN Finish([t EXCEPT !.data = data], Err("INGESTION_BUCKET_NAME"))
    ELSE [t EXCEPT !.data = data, !.pc = "s3_client",
                   !.key = Some(Key(t.log_source_name, NewV4))]

\* An upload that follows the connector whatever it returned.
AndThenAlways(t, out) == UploadData(t, IF out.ok THEN out.val ELSE <<t.log_source_name>>)

\* Lines 152-154: pull_logs(...).and_then(upload_data).
AndThen(t, out) == IF out.ok THEN UploadData(t, out.val) ELSE Finish(t, out)

\* Lines 174-178: FuturesOrdered polls its futures one by one; the step of
\* future k changes that future and leaves the others as they are.
PolledFailFast(ts, k, t) ==
    [j \in 1..Len(ts) |->
        IF j = k THEN t
        ELSE IF t.pc = "done" /\ ~t.result.ok /\ ts[j].pc # "done"
        THEN Finish(ts[j], Err("cancelled"))
        ELSE ts[j]]
Polled(ts, k, t) == [ts EXCEPT ![k] = t]

PullLogsDone(k, out) ==
    /\ hpc = "awaiting"
    /\ tasks[k].pc = "pull_logs"
    /\ tasks' = Polled(tasks, k, AndThen([tasks[k] EXCEPT !.pulled = Some(out)], out))
    /\ UNCHANGED <<bucketEnv, invocations, hpc, event, failures, msg_ids, response, bucket, putLog, putCount, written>>

(***************************************************************************)
(* Lines 217-230: the S3 client is there; the data is compressed, which    *)
(* may fail, and put_object is sent.                                       *)
(***************************************************************************)
S3ClientReady(k, encoded) ==
    /\ hpc = "awaiting"
    /\ tasks[k].pc = "s3_client"
    /\ tasks' = Polled(tasks, k,
            IF encoded
            THEN [tasks[k] EXCEPT !.pc = "put_object", !.puts = @ + 1]
            ELSE Finish(tasks[k], Err("zstd")))
    /\ putLog' = IF encoded THEN putLog \cup {tasks[k].key.val} ELSE putLog
    /\ putCount' = IF encoded THEN putCount + 1 ELSE putCount
    /\ UNCHANGED <<bucketEnv, invocations, hpc, event, failures, msg_ids, response, bucket, written>>

\* put_object on the bucket: the object under the key is replaced.
PutObject(objects, key, body) ==
    {o \in objects : o.key # key}
        \cup {[key |-> key, body |-> body, content_encoding |-> "application/zstd"]}

\* Lines 224-236: put_object completes, with the object stored or an error.
PutObjectDone(k, stored) ==
    /\ hpc = "awaiting"
    /\ tasks[k].pc = "put_object"
    /\ IF stored
       THEN /\ bucket' = PutObject(bucket, tasks[k].key.val, ZstdEncode(tasks[k].data))
            /\ tasks' = Polled(tasks, k, Finish([tasks[k] EXCEPT !.stored = @ + 1], Ok("unit")))
       ELSE /\ bucket' = bucket
            /\ tasks' = Polled(tasks, k, Finish(tasks[k], Err("put_object")))
    /\ written' = IF stored THEN written + 1 ELSE written
    /\ UNCHANGED <<bucketEnv, invocations, hpc, event, failures, msg_ids, response, putLog, putCount>>

(***************************************************************************)
(* Lines 180-202: every future has completed; FuturesOrdered yields the    *)
(* results in the order of the futures.  The ids of the errors are pushed  *)
(* onto failures and the response is built.                                *)
(***************************************************************************)
ResultFailuresIgnored(results, ids) == <<>>
\* The ids of the errors, last result first.
ResultFailuresReversed(results, ids) ==
    LET n == IF Len(results) < Len(ids) THEN Len(results) ELSE Len(ids)
        zipped == [k \in 1..n |-> [result |-> results[n + 1 - k], msg_id |-> ids[n + 1 - k]]]
        bad == SelectSeq(zipped, LAMBDA z : ~z.result.ok)
    IN  [k \in 1..Len(bad) |-> bad[k].msg_id]
ResultFailures(results, ids) ==
    LET n == IF Len(results) < Len(ids) THEN Len(results) ELSE Len(ids)
        zipped == [k \in 1..n |-> [result |-> results[k], msg_id |-> ids[k]]]
        bad == SelectSeq(zipped, LAMBDA z : ~z.result.ok)
    IN  [k \in 1..Len(bad) |-> bad[k].msg_id]

BatchResponseAlwaysSome(fs) == Some([batchItemFailures |-> fs])
BatchResponse(fs) ==
    IF fs = <<>> THEN None ELSE Some([batchItemFailures |-> fs])

\* A collection that yields the results completed so far, in order, as
\* soon as the first future has completed.
CollectedPrefix(ts) ==
    LET n == CHOOSE j \in 0..Len(ts) :
                /\ \A i \in 1..j : ts[i].pc = "done"
                /\ j < Len(ts) => ts[j + 1].pc # "done"
    IN  IF n > 0 \/ Len(ts) = 0
        THEN Some([k \in 1..n |-> ts[k].result])
        ELSE None

\* Lines 174-178: .collect::<Vec<_>>().await completes when every future
\* has completed, with the results in the order of the futures.
Collected(ts) ==
    IF \A k \in 1..Len(ts) : ts[k].pc = "done"
    THEN Some([k \in 1..Len(ts) |-> ts[k].result])
    ELSE None

Collect ==
    /\ hpc = "awaiting"
    /\ Collected(tasks).some
    /\ failures' = failures \o ResultFailures(Collected(tasks).val, msg_ids)
    /\ response' = Returned(Ok(BatchResponse(failures')))
    /\ hpc' = "returned"
    /\ UNCHANGED <<bucketEnv, invocations, event, msg_ids, tasks, bucket, putLog, putCount, written>>

(***************************************************************************)
(* Lines 100-101: the runtime (run(service_fn(handler))) takes what the    *)
(* invocation ended with, the handler's locals are dropped, and the next   *)
(* event is awaited.                                                       *)
(***************************************************************************)
Respond ==
    /\ hpc \in {"returned", "panicked"}
    /\ hpc' = "idle"
    /\ event' = <<>>
    /\ failures' = VecNew
    /\ msg_ids' = <<>>
    /\ tasks' = <<>>
    /\ response' = Pending
    /\ UNCHANGED <<bucketEnv, invocations, bucket, putLog, putCount, written>>

Init ==
    /\ bucketEnv \in BOOLEAN
    /\ invocations = 0
    /\ hpc = "idle"
    /\ event = <<>>
    /\ failures = <<>>
    /\ msg_ids = <<>>
    /\ tasks = <<>>
    /\ response = Pending
    /\ bucket = {}
    /\ putLog = {}
    /\ putCount = 0
    /\ written = 0

Next ==
    \/ hpc = "idle" /\ invocations = 0 /\ \E records \in Batches : Invoke(records)
    \/ hpc = "idle" /\ invocations > 0 /\ \E records \in LaterBatches : Invoke(records)
    \/ Poll
    \/ \E k \in 1..Len(tasks) : \E out \in PullLogsOutcomes(tasks[k].log_source_name) :
            PullLogsDone(k, out)
    \/ \E k \in 1..Len(tasks) : \E encoded \in BOOLEAN : S3ClientReady(k, encoded)
    \/ \E k \in 1..Len(tasks) : \E stored \in BOOLEAN : PutObjectDone(k, stored)
    \/ Collect
    \/ Respond

Spec == Init /\ [][Next]_vars

(***************************************************************************)
(* The scheduling of one invocation: the executor polls the collection,    *)
(* every connector call and every put_object completes, the S3 client      *)
(* becomes available, and a future that is ready is polled again; the      *)
(* runtime takes the outcome of an invocation that has ended.  No          *)
(* fairness is assumed on the arrival of events.                           *)
(***************************************************************************)
Fairness ==
    /\ WF_vars(Poll)
    /\ WF_vars(\E k \in 1..Len(tasks) : \E out \in PullLogsOutcomes(tasks[k].log_source_name) :
                    PullLogsDone(k, out))
    /\ WF_vars(\E k \in 1..Len(tasks) : \E encoded \in BOOLEAN : S3ClientReady(k, encoded))
    /\ WF_vars(\E k \in 1..Len(tasks) : \E stored \in BOOLEAN : PutObjectDone(k, stored))
    /\ WF_vars(Collect)
    /\ WF_vars(Respond)

FairSpec == Spec /\ Fairness

(***************************************************************************)
(* What the properties speak of: the items of the current batch, the       *)
(* futures dispatched for them and the report the handler returned.        *)
(***************************************************************************)
HasReturned == hpc = "returned"

\* The ids listed in the returned response; none when it is the absent one.
Report ==
    IF HasReturned /\ response.val.val.some
    THEN response.val.val.val.batchItemFailures
    ELSE <<>>
InReport(id) == \E n \in 1..Len(Report) : Report[n] = id

Items == 1..Len(event)
HasIdAndBody(i) == event[i].message_id.some /\ event[i].body.some
IdOf(i) == event[i].message_id.val
WellFormed(i) == HasIdAndBody(i) /\ ParseRequest(event[i].body.val).ok
Malformed(i) == HasIdAndBody(i) /\ ~ParseRequest(event[i].body.val).ok
KnownSource(i) ==
    WellFormed(i) /\ ParseRequest(event[i].body.val).val.log_source_name \in DOMAIN CONTEXTS
UnknownSource(i) == WellFormed(i) /\ ~KnownSource(i)
TasksOf(i) == {k \in 1..Len(tasks) : tasks[k].item = i}

\* The connector of future k returned bytes / no bytes / an error.
PulledData(k) ==
    tasks[k].pulled.some /\ tasks[k].pulled.val.ok /\ tasks[k].pulled.val.val # <<>>
PulledEmpty(k) ==
    tasks[k].pulled.some /\ tasks[k].pulled.val.ok /\ tasks[k].pulled.val.val = <<>>
PullFailed(k) == tasks[k].pulled.some /\ ~tasks[k].pulled.val.ok

\* The object future k wrote is in the bucket: its key, its compressed data.
ObjectOf(k) ==
    [key |-> tasks[k].key.val, body |-> ZstdEncode(tasks[k].data),
     content_encoding |-> "application/zstd"]
Archived(k) ==
    /\ tasks[k].key.some
    /\ tasks[k].stored = 1
    /\ ObjectOf(k) \in bucket
    /\ ZstdEncode(tasks[k].pulled.val.val) = ObjectOf(k).body

\* Future k failed in its own pull, its own preparation or its own write.
OwnFailure(k) ==
    /\ tasks[k].pc = "done"
    /\ ~tasks[k].result.ok
    /\ \/ PullFailed(k) /\ tasks[k].result = tasks[k].pulled.val
       \/ PulledData(k) /\ tasks[k].result.err \in {"INGESTION_BUCKET_NAME", "zstd", "put_object"}
Succeeded(k) == tasks[k].pc = "done" /\ tasks[k].result.ok

\* Some item of the batch failed: unknown source, connector, or upload.
SomeItemFailed ==
    \/ \E i \in Items : HasIdAndBody(i) /\ UnknownSource(i)
    \/ \E k \in 1..Len(tasks) : OwnFailure(k)

(***************************************************************************)
(* C1  Partial-failure isolation.  When the handler has returned, every    *)
(* parsed request whose source resolves has exactly one future, that       *)
(* future ran to its own end whatever happened to the others: its          *)
(* connector was called once and answered, its non-empty data is in the    *)
(* bucket unless its own upload failed, and its id is in the report        *)
(* exactly when it failed itself.                                          *)
(***************************************************************************)
IsolationC1 ==
    HasReturned =>
        \A i \in Items : KnownSource(i) =>
            /\ Cardinality(TasksOf(i)) = 1
            /\ \A k \in TasksOf(i) :
                /\ tasks[k].pc = "done"
                /\ tasks[k].pulls = 1
                /\ tasks[k].pulled.some
                /\ PulledData(k) => Archived(k) \/ OwnFailure(k)
                /\ OwnFailure(k) \/ Succeeded(k)
                /\ OwnFailure(k) => InReport(IdOf(i))
                /\ Succeeded(k) => ~InReport(IdOf(i))

\* The storage write of one item failed while its sibling was archived, and
\* only the failed item is reported.
IsolationC1Witness ==
    /\ HasReturned
    /\ Len(tasks) = 2
    /\ OwnFailure(1) /\ tasks[1].result.err = "put_object"
    /\ Succeeded(2) /\ Archived(2)
    /\ Report = <<IdOf(tasks[1].item)>>

(***************************************************************************)
(* C2  No identity cross-talk.  When the handler has returned, the id of a *)
(* dispatched item is in the report if and only if the future of that very *)
(* item ended in an error, and every id in the report is the id of an item *)
(* of the batch that failed itself.                                        *)
(***************************************************************************)
NoCrossTalkC2 ==
    HasReturned =>
        /\ \A k \in 1..Len(tasks) :
              InReport(IdOf(tasks[k].item)) <=> ~tasks[k].result.ok
        /\ \A n \in 1..Len(Report) :
              \E i \in Items :
                  /\ HasIdAndBody(i) /\ IdOf(i) = Report[n]
                  /\ UnknownSource(i) \/ \E k \in TasksOf(i) : ~tasks[k].result.ok

\* An unknown source was removed before dispatch, and of the two items the
\* later one was dispatched, failed and is reported under its own id.
NoCrossTalkC2Witness ==
    /\ HasReturned
    /\ Len(event) = 2 /\ HasIdAndBody(1) /\ UnknownSource(1)
    /\ Len(tasks) = 1 /\ tasks[1].item = 2 /\ ~tasks[1].result.ok
    /\ InReport(IdOf(2))

(***************************************************************************)
(* C3  A message with an id whose body does not parse into a request has   *)
(* its id in the returned report, and no future exists for it.             *)
(***************************************************************************)
MalformedReportedC3 ==
    /\ \A i \in Items : Malformed(i) => TasksOf(i) = {}
    /\ HasReturned => \A i \in Items : Malformed(i) => InReport(IdOf(i))

(***************************************************************************)
(* C4  A parsed request whose source is not in the catalog has its id in   *)
(* the returned report; no future is ever made for it, so no connector is  *)
(* called and nothing is put for it, and no object is stored under a name  *)
(* the catalog does not hold.                                              *)
(***************************************************************************)
UnknownSourceC4 ==
    /\ \A i \in Items : HasIdAndBody(i) /\ UnknownSource(i) =>
          /\ TasksOf(i) = {}
          /\ HasReturned => InReport(IdOf(i))
    /\ \A k \in 1..Len(tasks) : tasks[k].log_source_name \in DOMAIN CONTEXTS
    /\ \A o \in bucket : o.key.prefix \in DOMAIN CONTEXTS

UnknownSourceC4Witness ==
    /\ HasReturned
    /\ \E i \in Items : HasIdAndBody(i) /\ UnknownSource(i) /\ InReport(IdOf(i))
    /\ \E k \in 1..Len(tasks) : Archived(k)

(***************************************************************************)
(* C5  Outcome partition.  When the handler has returned, the well-formed  *)
(* items split into the succeeded ones and the ones listed in the report:  *)
(* none is in both, none in neither, the report lists no id twice and      *)
(* nothing else, and the two counts add up to the number of well-formed    *)
(* items.                                                                  *)
(***************************************************************************)
WellFormedItems == {i \in Items : WellFormed(i)}
SucceededItems == {i \in WellFormedItems : \E k \in TasksOf(i) : Succeeded(k)}
ReportedItems == {i \in WellFormedItems : InReport(IdOf(i))}

PartitionC5 ==
    HasReturned =>
        /\ SucceededItems \cap ReportedItems = {}
        /\ SucceededItems \cup ReportedItems = WellFormedItems
        /\ \A m, n \in 1..Len(Report) : Report[m] = Report[n] => m = n
        /\ Len(Report) + Cardinality(SucceededItems) = Cardinality(WellFormedItems)

PartitionC5Witness ==
    /\ HasReturned
    /\ Cardinality(WellFormedItems) = 2
    /\ Cardinality(SucceededItems) = 1
    /\ Len(Report) = 1

(***************************************************************************)
(* C6  A future whose connector returned no bytes never puts anything,     *)
(* gets no key, ends Ok, and its id is not in the returned report.         *)
(***************************************************************************)
EmptyDataC6 ==
    \A k \in 1..Len(tasks) : PulledEmpty(k) =>
        /\ tasks[k].puts = 0
        /\ tasks[k].stored = 0
        /\ tasks[k].key = None
        /\ Succeeded(k)
        /\ HasReturned => ~InReport(IdOf(tasks[k].item))

EmptyDataC6Witness ==
    /\ HasReturned
    /\ bucketEnv
    /\ \E k \in 1..Len(tasks) : PulledEmpty(k)
    /\ response.val.val = None

(***************************************************************************)
(* C7, as stated: a future whose connector returned bytes has put exactly  *)
(* once when it is done.                                                   *)
(***************************************************************************)
OneWritePerDataC7 ==
    \A k \in 1..Len(tasks) : tasks[k].pc = "done" /\ PulledData(k) => tasks[k].puts = 1

(***************************************************************************)
(* C7, amended.  A future whose connector returned bytes puts at most      *)
(* once, and exactly once when INGESTION_BUCKET_NAME is set and the        *)
(* compression succeeded; when it put nothing it ended in the error of     *)
(* one of these two.  A future that ended Ok with bytes corresponds to     *)
(* exactly one object, its own, in the bucket; a future with no bytes to   *)
(* none.                                                                   *)
(***************************************************************************)
OneWriteC7 ==
    \A k \in 1..Len(tasks) :
        /\ tasks[k].puts <= 1 /\ tasks[k].stored <= tasks[k].puts
        /\ tasks[k].pc = "done" /\ PulledData(k) =>
              /\ tasks[k].puts = 0 <=>
                    ~tasks[k].result.ok
                        /\ tasks[k].result.err \in {"INGESTION_BUCKET_NAME", "zstd"}
              /\ tasks[k].result.ok <=> tasks[k].stored = 1
              /\ tasks[k].result.ok => Archived(k)
              /\ ~bucketEnv => tasks[k].puts = 0
        /\ ~PulledData(k) => tasks[k].puts = 0 /\ tasks[k].stored = 0

OneWriteC7Witness ==
    /\ HasReturned
    /\ Len(tasks) = 2
    /\ PulledData(1) /\ Archived(1) /\ tasks[1].puts = 1
    /\ PulledData(2) /\ tasks[2].puts = 0 /\ tasks[2].result = Err("zstd")

(***************************************************************************)
(* C8  The handler returns the absent report exactly when the failure      *)
(* collection is empty; a report it returns lists at least one id, and     *)
(* lists the failure collection.                                           *)
(***************************************************************************)
AcceptanceC8 ==
    HasReturned =>
        /\ response.val.ok
        /\ response.val.val = None <=> failures = <<>>
        /\ response.val.val.some =>
              /\ Len(response.val.val.val.batchItemFailures) >= 1
              /\ response.val.val.val.batchItemFailures = failures

AcceptanceC8Witness ==
    /\ HasReturned
    /\ Len(event) = 2 /\ Len(tasks) = 2
    /\ \A k \in 1..2 : Succeeded(k) /\ Archived(k)
    /\ response.val.val = None

(***************************************************************************)
(* C9  For a batch of zero items the handler makes no future, so no        *)
(* connector call and no put, leaves the bucket as it is, and returns the  *)
(* absent report.                                                          *)
(***************************************************************************)
EmptyBatchC9 ==
    event = <<>> =>
        /\ tasks = <<>> /\ msg_ids = <<>> /\ failures = <<>>
        /\ hpc # "panicked"
        /\ HasReturned => response = Returned(Ok(None))

EmptyBatchC9Witness == HasReturned /\ event = <<>> /\ response = Returned(Ok(None))

(***************************************************************************)
(* C10  No invocation ends in an abort: whatever the items of the batch,   *)
(* the handler does not panic.                                             *)
(***************************************************************************)
NoAbortC10 == hpc # "panicked"

(***************************************************************************)
(* C11  No retry.  A future calls its connector at most once and sends     *)
(* put_object at most once; once it is done, with an error or not, it is   *)
(* never changed again during the invocation, so no second attempt is      *)
(* started, and the id of a future that ended in an error is in the        *)
(* returned report.                                                        *)
(***************************************************************************)
SingleAttempt ==
    \A k \in 1..Len(tasks) :
        /\ tasks[k].pulls <= 1
        /\ tasks[k].puts <= 1
        /\ tasks[k].pc \in {"pull_logs", "s3_client", "put_object", "done"} => tasks[k].pulls = 1
        /\ tasks[k].pc = "done" /\ ~tasks[k].result.ok /\ HasReturned
              => InReport(IdOf(tasks[k].item))

OutcomeIsFinal ==
    \A k \in 1..Len(tasks) :
        tasks[k].pc = "done" => hpc' = "idle" \/ tasks'[k] = tasks[k]

NoRetryC11 == []SingleAttempt /\ [][OutcomeIsFinal]_vars

\* A pull failed and a put_object failed, each after its single attempt.
NoRetryC11Witness ==
    /\ HasReturned
    /\ Len(tasks) = 2
    /\ PullFailed(1) /\ tasks[1].pulls = 1 /\ tasks[1].puts = 0
    /\ tasks[2].result = Err("put_object") /\ tasks[2].pulls = 1 /\ tasks[2].puts = 1
    /\ Report = <<IdOf(tasks[1].item), IdOf(tasks[2].item)>>

(***************************************************************************)
(* C12  Archiving never overwrites.  Over all invocations, every           *)
(* put_object was sent with a key of its own, a future about to send one   *)
(* holds a key that no object and no earlier request has, and the bucket   *)
(* holds one object for every put_object that stored one.                  *)
(***************************************************************************)
BucketKeys == {o.key : o \in bucket}

NoOverwriteC12 ==
    /\ Cardinality(putLog) = putCount
    /\ Cardinality(bucket) = written
    /\ Cardinality(BucketKeys) = written
    /\ BucketKeys \subseteq putLog
    /\ \A k \in 1..Len(tasks) : tasks[k].pc = "s3_client" =>
          tasks[k].key.val \notin putLog /\ tasks[k].key.val \notin BucketKeys
    /\ \A j, k \in 1..Len(tasks) :
          tasks[j].key.some /\ tasks[k].key.some /\ tasks[j].key = tasks[k].key => j = k

\* The same request for the same source was delivered again after its data
\* was archived, and was archived again: two objects of that source.
NoOverwriteC12Witness ==
    /\ HasReturned
    /\ invocations = 2
    /\ Len(tasks) = 1 /\ Archived(1)
    /\ written = 3
    /\ \A o \in bucket : o.key.prefix = tasks[1].log_source_name

(***************************************************************************)
(* C13  No cross-batch state.  At every moment the failure collection      *)
(* holds only ids of messages of the batch being processed, and the        *)
(* returned report lists as many ids as items of this batch failed:        *)
(* nothing recorded for an earlier batch is in it.                         *)
(***************************************************************************)
FailedItems ==
    {i \in WellFormedItems : UnknownSource(i) \/ \E k \in TasksOf(i) : ~tasks[k].result.ok}

NoCrossBatchC13 ==
    /\ \A n \in 1..Len(failures) :
          \E i \in Items : HasIdAndBody(i) /\ IdOf(i) = failures[n]
    /\ HasReturned => Len(Report) = Cardinality(FailedItems)

\* An earlier batch had a put_object fail (its key was sent and names no
\* object), so an id was recorded for it; the batch after it succeeded and
\* returned the absent report.
NoCrossBatchC13Witness ==
    /\ HasReturned
    /\ invocations = 2
    /\ \E key \in putLog :
          /\ key \notin BucketKeys
          /\ \A k \in 1..Len(tasks) : tasks[k].key # Some(key)
    /\ Len(tasks) = 1 /\ Succeeded(1)
    /\ response = Returned(Ok(None))

(***************************************************************************)
(* C14  Pull, then archive.  A future that has a key, waits for the S3     *)
(* client, has sent put_object or has stored an object is one whose own    *)
(* connector call has completed with bytes; a future whose connector       *)
(* failed is done with that error, never got a key, never sent put_object, *)
(* and its id is in the returned report.                                   *)
(***************************************************************************)
PullThenArchiveC14 ==
    \A k \in 1..Len(tasks) :
        /\ \/ tasks[k].key.some
           \/ tasks[k].pc \in {"s3_client", "put_object"}
           \/ tasks[k].puts > 0
           \/ tasks[k].stored > 0
           => PulledData(k) /\ tasks[k].data = tasks[k].pulled.val.val
        /\ tasks[k].pc \in {"created", "pull_logs"} =>
              ~tasks[k].pulled.some /\ tasks[k].puts = 0 /\ tasks[k].key = None
        /\ PullFailed(k) =>
              /\ tasks[k].pc = "done" /\ tasks[k].result = tasks[k].pulled.val
              /\ tasks[k].key = None /\ tasks[k].puts = 0 /\ tasks[k].stored = 0
              /\ HasReturned => InReport(IdOf(tasks[k].item))

\* One connector failed and nothing was put for it, while the connector of
\* the sibling is still running.
PullThenArchiveC14Witness ==
    /\ hpc = "awaiting"
    /\ Len(tasks) = 2
    /\ tasks[1].pc = "pull_logs"
    /\ PullFailed(2) /\ tasks[2].puts = 0

(***************************************************************************)
(* C15  Source scoping.  Every object of the bucket lies under the prefix  *)
(* of the source its bytes were pulled from, and every future carries the  *)
(* source name of the request of its own item: its bytes are of that       *)
(* source and its key is under that name.                                  *)
(***************************************************************************)
RequestOf(i) == ParseRequest(event[i].body.val).val

SourceScopedC15 ==
    /\ \A o \in bucket :
          /\ o.body.of # <<>>
          /\ \A n \in 1..Len(o.body.of) : o.body.of[n] = o.key.prefix
    /\ \A k \in 1..Len(tasks) :
          /\ WellFormed(tasks[k].item)
          /\ tasks[k].log_source_name = RequestOf(tasks[k].item).log_source_name
          /\ \A n \in 1..Len(tasks[k].data) : tasks[k].data[n] = tasks[k].log_source_name
          /\ tasks[k].key.some => tasks[k].key.val.prefix = tasks[k].log_source_name

\* Two sources were pulled in one batch, the later one archived first, and
\* each object is under its own source.
SourceScopedC15Witness ==
    /\ HasReturned
    /\ Len(tasks) = 2
    /\ tasks[1].log_source_name = "a" /\ tasks[2].log_source_name = "b"
    /\ Archived(1) /\ Archived(2)
    /\ tasks[2].key.val.name < tasks[1].key.val.name

(***************************************************************************)
(* C16  Fan-in barrier.  Whenever the handler has returned, every future   *)
(* of the batch is done; and every step that changes the failure           *)
(* collection or the response is taken while no future is in flight: the   *)
(* futures are all done before it, and not yet polled or done after it.    *)
(***************************************************************************)
NoneInFlight(ts) == \A k \in 1..Len(ts) : ts[k].pc \in {"created", "done"}

AllDoneAtReturn == HasReturned => \A k \in 1..Len(tasks) : tasks[k].pc = "done"

RecordedAtBarrier ==
    failures' # failures \/ response' # response =>
        /\ \A k \in 1..Len(tasks) : tasks[k].pc = "done"
        /\ NoneInFlight(tasks')

BarrierC16 == []AllDoneAtReturn /\ [][RecordedAtBarrier]_vars

\* An unknown source was recorded at dispatch and the failed put_object of
\* the other item at the end, when its future was done.
BarrierC16Witness ==
    /\ HasReturned
    /\ Len(event) = 2 /\ Len(tasks) = 1
    /\ Len(failures) = 2
    /\ tasks[1].result = Err("put_object")

(***************************************************************************)
(* C17  Termination.  Under the fair scheduling, every invocation of the   *)
(* handler that has started eventually returns its report.                 *)
(***************************************************************************)
Started == hpc \in {"polling", "awaiting", "panicked"}

TerminationC17 == Started ~> HasReturned

(***************************************************************************)
(* C17, for the invocations that reach the await of line 178: once the     *)
(* futures are dispatched, the handler eventually returns its report.      *)
(***************************************************************************)
Dispatching == hpc \in {"polling", "awaiting"}

ReturnsOnceDispatched == Dispatching ~> HasReturned

(***************************************************************************)
(* C18  Deterministic report order.  Whatever the order in which the       *)
(* futures completed, the returned report lists first the ids of the items *)
(* with an unknown source, in batch order, then the ids of the items whose *)
(* future ended in an error, in batch order.                               *)
(***************************************************************************)
IdsInBatchOrder(S) ==
    LET kept == SelectSeq(Indexed(event), LAMBDA r : r.item \in S)
    IN  [n \in 1..Len(kept) |-> kept[n].msg.message_id.val]

UnknownSourceItems == {i \in WellFormedItems : UnknownSource(i)}
FailedTaskItems == {i \in WellFormedItems : \E k \in TasksOf(i) : ~tasks[k].result.ok}

ReportOrderC18 ==
    /\ hpc \in {"polling", "awaiting"} => failures = IdsInBatchOrder(UnknownSourceItems)
    /\ HasReturned =>
          Report = IdsInBatchOrder(UnknownSourceItems) \o IdsInBatchOrder(FailedTaskItems)

\* The second item has an unknown source and the first one failed in its
\* future: the second id is listed first.
ReportOrderC18Witness ==
    /\ HasReturned
    /\ Len(event) = 2
    /\ UnknownSourceItems = {2} /\ FailedTaskItems = {1}
    /\ Report = <<IdOf(2), IdOf(1)>>

\* Both futures failed, and their ids are listed in batch order.
ReportOrderC18BothFailed ==
    /\ HasReturned
    /\ FailedTaskItems = {1, 2}
    /\ Report = <<IdOf(1), IdOf(2)>>
====
